---- MODULE Spec2Model ----
(***************************************************************************)
(* Model of neural_style/neural_style.py: the command line entry point     *)
(* (main, check_paths, stylize) and the training loop (train).             *)
(* The networks (TransformerNet, Vgg16) and the loss values they produce   *)
(* are opaque: a per-batch mean squared error is an input drawn from a     *)
(* small set, the transformer's parameters are the number of optimizer     *)
(* steps applied to them.  Losses are integers (fixed point).  The locals  *)
(* of the batch loop body are held only while the batch uses them, and     *)
(* mesg is the line printed by the latest step, if it printed one.         *)
(***************************************************************************)
EXTENDS Integers, Sequences, FiniteSets, TLC

\* ---- bounds of the model ----
MaxN == 3            \* images in the dataset
MaxBatch == 2        \* --batch-size
MaxEpochs == 2       \* --epochs
MaxLogInterval == 2  \* --log-interval
Layers == 2          \* feature maps returned by vgg(...)

\* ---- inputs ----
Subcommands == {"none", "train", "eval"}
DirStates == {"exists", "creatable", "uncreatable"}
ContentWeights == {1, 2}
StyleWeights == {5}
MSEValues == {0, 1}  \* what one mse_loss(...) call may return

VARIABLES
    subcommand,       \* args.subcommand
    dirs,             \* file system state of vgg_model_dir / save_model_dir
    cuda_available,   \* torch.cuda.is_available(): "unqueried", "yes" or "no"
    cuda_requested,   \* the --cuda flag as given on the command line
    dataset_len,      \* len(train_dataset), 0 before the dataset is opened
    args,             \* the argparse namespace (args.cuda is assigned in train)
    pc,               \* position in main / check_paths / train / stylize
    exit_code,        \* process exit status, -1 while running
    error,            \* error kind that was raised, "none" if none
    paths_checked,    \* check_paths has been entered
    train_started,    \* train has been entered
    stylize_started,  \* stylize has been entered
    warned,           \* the CPU fallback warning was printed
    placed,           \* <<object, backend>> pairs: what was put where
    train_loader,     \* the DataLoader's settings
    order,            \* the order the sampler yields dataset indices this epoch
    visited,          \* dataset indices yielded so far this epoch
    batches,          \* sizes of the batches yielded so far this epoch
    gram_style,       \* per layer, the rows of the style Gram statistics
    gram_computed,    \* how many times gram_style was computed
    gram_s,           \* per layer, the slice compared against in this batch
    e,                \* epoch index, 0-based
    batch_id,         \* index of the current batch in the epoch, 0-based
    count,            \* samples processed so far this epoch
    n_batch,          \* len(x) of the current batch
    params,           \* transformer parameters: optimizer steps applied
    fetched,          \* batches yielded by the loader in the whole run
    phases,           \* phases the current batch went through
    content_loss,     \* content_loss of the current batch
    style_loss,       \* style_loss of the current batch
    agg_content_loss,
    agg_style_loss,
    n_losses,         \* batches of this epoch whose losses were computed
    sum_content_loss, \* sum of content_loss over those batches
    sum_mse_content,  \* sum of the content mse over those batches
    sum_mse_style,    \* sum of the style mse (all layers) over those batches
    n_log,            \* log lines printed
    logged,           \* <<epoch (1-based), batch (1-based)>> of each log line
    mesg,             \* the log line printed by the latest step, or NoMesg
    saved             \* checkpoints written

envVars == <<subcommand, dirs, cuda_available, cuda_requested, dataset_len>>
mainVars == <<exit_code, paths_checked, train_started, stylize_started>>
setupVars == <<args, warned, train_loader, gram_style, gram_computed>>
loaderVars == <<order, visited, batches, fetched>>
batchVars == <<batch_id, count, n_batch, phases, content_loss, style_loss, gram_s>>
aggVars == <<agg_content_loss, agg_style_loss>>
lossVars == <<n_losses, sum_content_loss, sum_mse_content, sum_mse_style>>
logVars == <<n_log, logged>>

vars == <<envVars, mainVars, setupVars, loaderVars, batchVars, aggVars, lossVars, logVars,
          mesg, pc, error, placed, e, params, saved>>

\* ---- helpers ----
Min(a, b) == IF a < b THEN a ELSE b

CeilDiv(a, b) == (a + b - 1) \div b

RECURSIVE SumSeq(_)
SumSeq(s) == IF s = <<>> THEN 0 ELSE Head(s) + SumSeq(Tail(s))

Identity(n) == [i \in 1..n |-> i]

Shuffles(n) ==
    {p \in [1..n -> 1..n] : \A i, j \in 1..n : p[i] = p[j] => i = j}

IsPrefix(s, t) == Len(s) <= Len(t) /\ SubSeq(t, 1, Len(s)) = s

NoMesg == [epoch |-> 0, count |-> 0, total |-> 0, divisor |-> 0,
           content |-> 0, style |-> 0, sum |-> 0]

\* ---- main, the arguments: lines 160-185 ----
\* The namespace parse_args returns for the train subcommand.
TrainArgs ==
    [batch_size : 1..MaxBatch, epochs : 0..MaxEpochs,
     log_interval : 1..MaxLogInterval, cuda : {0, 1},
     content_weight : ContentWeights, style_weight : StyleWeights]

\* Without the train subcommand the namespace has none of train's options.
OtherArgs ==
    [batch_size |-> 0, epochs |-> 0, log_interval |-> 0, cuda |-> 0,
     content_weight |-> 0, style_weight |-> 0]

\* ---- main: lines 185-195 ----
Dispatch_NoPathCheck(sub) ==
    IF sub = "none" THEN "exit"
    ELSE IF sub = "train" THEN "train"
    ELSE "stylize"

Dispatch(sub) ==
    IF sub = "none" THEN "exit"
    ELSE IF sub = "train" THEN "check_paths"
    ELSE "stylize"

Init ==
    /\ subcommand \in Subcommands
    /\ dirs \in [vgg_model_dir : DirStates, save_model_dir : DirStates]
    /\ cuda_available = "unqueried"
    /\ dataset_len = 0
    /\ args \in IF subcommand = "train" THEN TrainArgs ELSE {OtherArgs}
    /\ cuda_requested = args.cuda
    /\ pc = "main"
    /\ exit_code = -1
    /\ error = "none"
    /\ paths_checked = FALSE
    /\ train_started = FALSE
    /\ stylize_started = FALSE
    /\ warned = FALSE
    /\ placed = {}
    /\ train_loader = [built |-> FALSE, batch_size |-> 0, shuffle |-> FALSE]
    /\ order = <<>>
    /\ visited = <<>>
    /\ batches = <<>>
    /\ gram_style = <<>>
    /\ gram_computed = 0
    /\ gram_s = <<>>
    /\ e = 0
    /\ batch_id = 0
    /\ count = 0
    /\ n_batch = 0
    /\ params = 0
    /\ fetched = 0
    /\ phases = <<>>
    /\ content_loss = 0
    /\ style_loss = 0
    /\ agg_content_loss = 0
    /\ agg_style_loss = 0
    /\ n_losses = 0
    /\ sum_content_loss = 0
    /\ sum_mse_content = 0
    /\ sum_mse_style = 0
    /\ n_log = 0
    /\ logged = {}
    /\ mesg = NoMesg
    /\ saved = 0

Main ==
    /\ mesg' = NoMesg
    /\ pc = "main"
    /\ pc' = Dispatch(subcommand)
    /\ exit_code' = IF Dispatch(subcommand) = "exit" THEN 1 ELSE exit_code
    /\ UNCHANGED <<envVars, paths_checked, train_started, stylize_started,
                   setupVars, loaderVars, batchVars, aggVars, lossVars, logVars,
                   error, placed, e, params, saved>>

\* Leaving the process: sys.exit(code) or an uncaught exception (status 1).
Exit(code) ==
    /\ pc' = "exit"
    /\ exit_code' = code

Raise(kind) ==
    /\ error' = kind
    /\ Exit(1)

\* ---- check_paths: lines 139-147 ----
MakeDirs(d) == IF d = "exists" THEN "exists" ELSE IF d = "creatable" THEN "exists" ELSE "uncreatable"

check_paths ==
    /\ mesg' = NoMesg
    /\ pc = "check_paths"
    /\ paths_checked' = TRUE
    /\ LET vgg == MakeDirs(dirs.vgg_model_dir)
           save == IF vgg = "exists" THEN MakeDirs(dirs.save_model_dir)
                   ELSE dirs.save_model_dir
       IN /\ dirs' = [vgg_model_dir |-> vgg, save_model_dir |-> save]
          /\ IF vgg = "exists" /\ save = "exists"
             THEN /\ pc' = "train"
                  /\ UNCHANGED <<exit_code, error>>
             ELSE Raise("PathError")
    /\ UNCHANGED <<subcommand, cuda_available, cuda_requested, dataset_len,
                   train_started, stylize_started,
                   setupVars, loaderVars, batchVars, aggVars, lossVars, logVars,
                   placed, e, params, saved>>

\* ---- stylize: lines 150-156 ----
stylize ==
    /\ mesg' = NoMesg
    /\ pc = "stylize"
    /\ stylize_started' = TRUE
    /\ \E ok \in BOOLEAN :
          IF ok THEN Exit(0) /\ UNCHANGED error
          ELSE Raise("IOError")
    /\ UNCHANGED <<envVars, paths_checked, train_started,
                   setupVars, loaderVars, batchVars, aggVars, lossVars, logVars,
                   placed, e, params, saved>>

\* ---- train, backend selection: lines 19-31 ----
SelectBackend_NoFallback(cuda, available) == cuda

SelectBackend(cuda, available) ==
    IF cuda # 0 /\ ~available THEN 0 ELSE cuda

Backend(cuda) == IF cuda # 0 THEN "cuda" ELSE "cpu"

TrainBegin ==
    /\ mesg' = NoMesg
    /\ pc = "train"
    /\ train_started' = TRUE
    /\ \E available \in BOOLEAN :
          /\ cuda_available' = IF args.cuda = 0 THEN "unqueried"
                                ELSE IF available THEN "yes" ELSE "no"
          /\ warned' = (args.cuda # 0 /\ ~available)
          /\ args' = [args EXCEPT !.cuda = SelectBackend(args.cuda, available)]
    /\ placed' = placed \cup {<<"seed", "cpu">>}
                       \cup (IF args'.cuda # 0 THEN {<<"seed", "cuda">>} ELSE {})
    /\ pc' = "setup"
    /\ UNCHANGED <<subcommand, dirs, cuda_requested, dataset_len,
                   exit_code, paths_checked, stylize_started,
                   train_loader, gram_style, gram_computed,
                   loaderVars, batchVars, aggVars, lossVars, logVars,
                   error, e, params, saved>>

\* ---- train, data loader and networks: lines 50-67 ----
DataLoader_Shuffled(batch_size) ==
    [built |-> TRUE, batch_size |-> batch_size, shuffle |-> TRUE]

DataLoader(batch_size) ==
    [built |-> TRUE, batch_size |-> batch_size, shuffle |-> FALSE]

Sampler(loader, n) ==
    IF loader.shuffle THEN Shuffles(n) ELSE {Identity(n)}

Setup ==
    /\ mesg' = NoMesg
    /\ pc = "setup"
    /\ \E ok \in BOOLEAN :
          IF ok
          THEN /\ dataset_len' \in 1..MaxN
               /\ train_loader' = DataLoader(args.batch_size)
               /\ placed' = placed \cup {<<"transformer", Backend(args.cuda)>>,
                                         <<"vgg", Backend(args.cuda)>>}
               /\ pc' = "style"
               /\ UNCHANGED <<exit_code, error>>
          ELSE /\ Raise("IOError")
               /\ UNCHANGED <<dataset_len, train_loader, placed>>
    /\ UNCHANGED <<subcommand, dirs, cuda_available, cuda_requested, paths_checked, train_started, stylize_started,
                   args, warned, gram_style, gram_computed,
                   loaderVars, batchVars, aggVars, lossVars, logVars,
                   e, params, saved>>

\* ---- train, style statistics: lines 69-77 ----
Repeat_Once(row, n) == <<row>>

Repeat(row, n) == [i \in 1..n |-> row]

\* The Gram statistic of the style image at layer m, one row per image.
StyleGram(m) == 10 * m

Style ==
    /\ mesg' = NoMesg
    /\ pc = "style"
    /\ \E ok \in BOOLEAN :
          IF ok
          THEN /\ gram_style' = [m \in 1..Layers |->
                                    Repeat(StyleGram(m), args.batch_size)]
               /\ gram_computed' = gram_computed + 1
               /\ placed' = placed \cup {<<"style", Backend(args.cuda)>>}
               /\ pc' = "epoch_loop"
               /\ UNCHANGED <<exit_code, error>>
          ELSE /\ Raise("IOError")
               /\ UNCHANGED <<gram_style, gram_computed, placed>>
    /\ UNCHANGED <<envVars, paths_checked, train_started, stylize_started,
                   args, warned, train_loader,
                   loaderVars, batchVars, aggVars, lossVars, logVars,
                   e, params, saved>>

\* ---- train, epoch loop: lines 79-83 ----
EpochsRemain_OffByOne(epoch, epochs) == epoch < epochs - 1

EpochsRemain(epoch, epochs) == epoch < epochs

AggAtEpochStart_NoReset(prev) == prev

AggAtEpochStart(prev) == 0

EpochLoop ==
    /\ mesg' = NoMesg
    /\ pc = "epoch_loop"
    /\ IF EpochsRemain(e, args.epochs)
       THEN /\ agg_content_loss' = AggAtEpochStart(agg_content_loss)
            /\ agg_style_loss' = AggAtEpochStart(agg_style_loss)
            /\ count' = 0
            /\ batch_id' = 0
            /\ n_losses' = 0
            /\ sum_content_loss' = 0
            /\ sum_mse_content' = 0
            /\ sum_mse_style' = 0
            /\ order' \in Sampler(train_loader, dataset_len)
            /\ visited' = <<>>
            /\ batches' = <<>>
            /\ pc' = "batch_loop"
       ELSE /\ pc' = "save"
            /\ UNCHANGED <<agg_content_loss, agg_style_loss, count, batch_id,
                           lossVars, order, visited, batches>>
    /\ UNCHANGED <<envVars, mainVars, setupVars, fetched,
                   n_batch, phases, content_loss, style_loss, gram_s,
                   logVars, error, placed, e, params, saved>>

\* ---- train, one batch from the loader: lines 84-90 ----
\* The batch after `done` samples: the next batch_size indices of the
\* sampler's order, fewer when the order runs out.
NextBatchSize(loader, n, done) == Min(loader.batch_size, n - done)

BatchLoop ==
    /\ mesg' = NoMesg
    /\ pc = "batch_loop"
    /\ IF Len(visited) < dataset_len
       THEN \E ok \in BOOLEAN :
              IF ok
              THEN /\ n_batch' = NextBatchSize(train_loader, dataset_len, Len(visited))
                   /\ visited' = visited \o SubSeq(order, Len(visited) + 1,
                                                   Len(visited) + n_batch')
                   /\ batches' = Append(batches, n_batch')
                   /\ batch_id' = Len(batches)
                   /\ count' = count + n_batch'
                   /\ fetched' = fetched + 1
                   /\ phases' = <<>>
                   /\ placed' = placed \cup {<<"x", Backend(args.cuda)>>}
                   /\ pc' = "forward"
                   /\ UNCHANGED <<exit_code, error, e>>
              ELSE /\ Raise("IOError")
                   /\ UNCHANGED <<n_batch, visited, batches, batch_id, count,
                                  fetched, phases, placed, e>>
       ELSE /\ e' = e + 1
            /\ pc' = "epoch_loop"
            /\ UNCHANGED <<n_batch, visited, batches, batch_id, count,
                           fetched, phases, placed, exit_code, error>>
    /\ UNCHANGED <<envVars, paths_checked, train_started, stylize_started,
                   setupVars, order, content_loss, style_loss, gram_s,
                   aggVars, lossVars, logVars, params, saved>>

\* ---- train, the steps of one batch: lines 92-114 ----
After_StepBeforeBackward(p) ==
    CASE p = "forward" -> "loss"
      [] p = "loss" -> "update"
      [] p = "update" -> "backward"
      [] p = "backward" -> "log"
      [] p = "log" -> "batch_loop"

After(p) ==
    CASE p = "forward" -> "loss"
      [] p = "loss" -> "backward"
      [] p = "backward" -> "update"
      [] p = "update" -> "log"
      [] p = "log" -> "batch_loop"

\* y = transformer(x): line 92
Forward ==
    /\ mesg' = NoMesg
    /\ pc = "forward"
    /\ \E ok \in BOOLEAN :
          IF ok
          THEN /\ phases' = Append(phases, "Forward")
               /\ pc' = After("forward")
               /\ UNCHANGED <<exit_code, error>>
          ELSE /\ Raise("ShapeError")
               /\ UNCHANGED phases
    /\ UNCHANGED <<envVars, paths_checked, train_started, stylize_started,
                   setupVars, loaderVars,
                   batch_id, count, n_batch, content_loss, style_loss, gram_s,
                   aggVars, lossVars, logVars, placed, e, params, saved>>

\* content_loss, style_loss, total_loss: lines 94-112
ContentLoss_Unweighted(content_weight, mse) == mse

ContentLoss(content_weight, mse) == content_weight * mse

StyleLoss(style_weight, mses) ==
    SumSeq([m \in 1..Len(mses) |-> style_weight * mses[m]])

\* gram_s[:n_batch, :, :]
Slice(rows, n) == SubSeq(rows, 1, Min(n, Len(rows)))

GramAfterLoss_InPlace(gram, n) == [m \in DOMAIN gram |-> Slice(gram[m], n)]

\* What the style statistics are after a batch compared against them.
GramAfterLoss(gram, n) == gram

Loss ==
    /\ mesg' = NoMesg
    /\ pc = "loss"
    /\ gram_s' = [m \in 1..Layers |-> Slice(gram_style[m], n_batch)]
    /\ gram_style' = GramAfterLoss(gram_style, n_batch)
    /\ IF \E m \in 1..Layers : Len(gram_s'[m]) # n_batch
       THEN /\ Raise("GramShapeError")
            /\ UNCHANGED <<phases, content_loss, style_loss, lossVars>>
       ELSE \E ok \in BOOLEAN :
              IF ok
              THEN \E mse_c \in MSEValues, mse_s \in [1..Layers -> MSEValues] :
                     /\ content_loss' = ContentLoss(args.content_weight, mse_c)
                     /\ style_loss' = StyleLoss(args.style_weight, mse_s)
                     /\ n_losses' = n_losses + 1
                     /\ sum_content_loss' = sum_content_loss + content_loss'
                     /\ sum_mse_content' = sum_mse_content + mse_c
                     /\ sum_mse_style' = sum_mse_style + SumSeq(mse_s)
                     /\ phases' = Append(phases, "Loss")
                     /\ pc' = After("loss")
                     /\ UNCHANGED <<exit_code, error>>
              ELSE /\ Raise("ShapeError")
                   /\ UNCHANGED <<phases, content_loss, style_loss, lossVars>>
    /\ UNCHANGED <<envVars, paths_checked, train_started, stylize_started,
                   args, warned, train_loader, gram_computed, loaderVars,
                   batch_id, count, n_batch, aggVars,
                   logVars, placed, e, params, saved>>

\* total_loss.backward(): line 113
Backward ==
    /\ mesg' = NoMesg
    /\ pc = "backward"
    /\ phases' = Append(phases, "Backward")
    /\ pc' = After("backward")
    /\ UNCHANGED <<envVars, mainVars, setupVars, loaderVars,
                   batch_id, count, n_batch, content_loss, style_loss, gram_s,
                   aggVars, lossVars, logVars, error, placed, e, params, saved>>

\* optimizer.step(): line 114
Update ==
    /\ mesg' = NoMesg
    /\ pc = "update"
    /\ params' = params + 1
    /\ phases' = Append(phases, "Update")
    /\ pc' = After("update")
    /\ UNCHANGED <<envVars, mainVars, setupVars, loaderVars,
                   batch_id, count, n_batch, content_loss, style_loss, gram_s,
                   aggVars, lossVars, logVars, error, placed, e, saved>>

\* ---- train, running averages and the log line: lines 116-126 ----
ShouldLog_ZeroBased(id, log_interval) == id % log_interval = 0

ShouldLog(id, log_interval) == (id + 1) % log_interval = 0

Log ==
    /\ pc = "log"
    /\ agg_content_loss' = agg_content_loss + content_loss
    /\ agg_style_loss' = agg_style_loss + style_loss
    /\ IF ShouldLog(batch_id, args.log_interval)
       THEN /\ mesg' = [epoch |-> e + 1, count |-> count, total |-> dataset_len,
                        divisor |-> batch_id + 1,
                        content |-> agg_content_loss' \div (batch_id + 1),
                        style |-> agg_style_loss' \div (batch_id + 1),
                        sum |-> (agg_content_loss' + agg_style_loss')
                                    \div (batch_id + 1)]
            /\ n_log' = n_log + 1
            /\ logged' = logged \cup {<<e + 1, batch_id + 1>>}
       ELSE /\ mesg' = NoMesg
            /\ UNCHANGED logVars
    /\ content_loss' = 0
    /\ style_loss' = 0
    /\ pc' = After("log")
    /\ UNCHANGED <<envVars, mainVars, setupVars, loaderVars,
                   batch_id, count, n_batch, phases, gram_s,
                   lossVars, error, placed, e, params, saved>>

\* ---- train, the checkpoint: lines 128-136 ----
Save ==
    /\ mesg' = NoMesg
    /\ pc = "save"
    /\ placed' = placed \cup {<<"checkpoint", "cpu">>}
    /\ \E ok \in BOOLEAN :
          IF ok
          THEN /\ saved' = saved + 1
               /\ pc' = "done"
               /\ UNCHANGED <<exit_code, error>>
          ELSE /\ Raise("IOError")
               /\ UNCHANGED saved
    /\ UNCHANGED <<envVars, paths_checked, train_started, stylize_started,
                   setupVars, loaderVars, batchVars, aggVars, lossVars, logVars,
                   e, params>>

\* train returns to main, which falls off its end: lines 193, 199
Done ==
    /\ mesg' = NoMesg
    /\ pc = "done"
    /\ Exit(0)
    /\ UNCHANGED <<envVars, paths_checked, train_started, stylize_started,
                   setupVars, loaderVars, batchVars, aggVars, lossVars, logVars,
                   error, placed, e, params, saved>>

Next ==
    \/ Main
    \/ check_paths
    \/ stylize
    \/ TrainBegin
    \/ Setup
    \/ Style
    \/ EpochLoop
    \/ BatchLoop
    \/ Forward
    \/ Loss
    \/ Backward
    \/ Update
    \/ Log
    \/ Save
    \/ Done

Spec == Init /\ [][Next]_vars

(***************************************************************************)
(* Properties                                                              *)
(***************************************************************************)
InBatch == pc \in {"forward", "loss", "backward", "update", "log"}

\* The accumulators cover every batch whose losses were computed.
AggCurrent == pc \notin {"backward", "update", "log"}

BatchesPerEpoch == CeilDiv(dataset_len, args.batch_size)

\* C1: the checkpoint is written at most once, only by the save step that
\* follows the last epoch, and then every batch of every epoch has had its
\* update; a run that raised an error has written no checkpoint, a run that
\* completed has written exactly one.
C1_CheckpointOnlyAfterCompleteRun ==
    /\ [](/\ saved <= 1
          /\ (saved = 1 => /\ error = "none"
                           /\ pc \in {"done", "exit"}
                           /\ params = args.epochs * BatchesPerEpoch)
          /\ (pc = "done" => saved = 1)
          /\ (error # "none" => saved = 0))
    /\ [][saved' # saved => pc = "save"]_vars

C1_Witness ==
    pc = "done" /\ saved = 1 /\ args.epochs = 2 /\ params >= 4

\* C2: a log line is printed after a batch exactly when its 1-based index in
\* the epoch is a multiple of log_interval, so a completed run has printed
\* epochs * floor(ceil(N / batch_size) / log_interval) lines.
C2_LogEveryInterval ==
    /\ [](/\ n_log = Cardinality(logged)
          /\ \A l \in logged : l[2] % args.log_interval = 0
          /\ (pc = "done" =>
                /\ n_log = args.epochs * (BatchesPerEpoch \div args.log_interval)
                /\ saved = 1))
    /\ [][(n_log' # n_log) <=>
            (pc = "log" /\ (batch_id + 1) % args.log_interval = 0)]_vars
    /\ [][n_log' # n_log =>
            n_log' = n_log + 1 /\ logged' = logged \cup {<<e + 1, batch_id + 1>>}]_vars

C2_Witness ==
    /\ dataset_len = 2 /\ args.batch_size = 2 /\ args.epochs = 1
    /\ args.log_interval = 1
    /\ pc = "done" /\ n_log = 1 /\ saved = 1

\* C3: after batch k of an epoch the accumulated content loss is the sum of
\* the k content losses of that epoch only, and a log line divides by k.
C3_RunningAverage ==
    /\ [](AggCurrent => /\ agg_content_loss = sum_content_loss
                        /\ (pc = "batch_loop" => n_losses = Len(batches)))
    /\ [][mesg' # NoMesg =>
            /\ pc = "log"
            /\ mesg'.divisor = n_losses
            /\ mesg'.divisor = batch_id + 1
            /\ mesg'.content = sum_content_loss \div n_losses]_vars

C3_Witness ==
    /\ pc = "batch_loop" /\ e = 1 /\ n_losses = 2
    /\ args.content_weight = 1 /\ agg_content_loss = 2
    /\ mesg.epoch = 2 /\ mesg.divisor = 2 /\ mesg.content = 1

\* C4 as stated: the accumulators hold the sums of the unweighted losses.
C4_Original ==
    AggCurrent => /\ agg_content_loss = sum_mse_content
                  /\ agg_style_loss = sum_mse_style

\* C4 amended: the accumulators hold the sums of the weighted losses, the
\* mean squared errors multiplied by content_weight and style_weight.
C4_WeightedAccumulators ==
    AggCurrent => /\ agg_content_loss = args.content_weight * sum_mse_content
                  /\ agg_style_loss = args.style_weight * sum_mse_style

C4_Witness ==
    /\ pc = "batch_loop" /\ args.content_weight = 2
    /\ sum_mse_content = 2 /\ agg_content_loss = 4
    /\ sum_mse_style > 0 /\ agg_style_loss = 5 * sum_mse_style

\* C5: every batch, a final partial batch included, is compared against a
\* slice of the style statistics with exactly as many rows as the batch; no
\* batch has more rows than the replicated statistics.
C5_SliceMatchesBatch ==
    /\ error # "GramShapeError"
    /\ (gram_computed = 1 =>
          \A m \in 1..Layers : Len(gram_style[m]) = args.batch_size)
    /\ (InBatch => /\ n_batch >= 1
                   /\ \A m \in 1..Layers : n_batch <= Len(gram_style[m]))
    /\ (pc \in {"backward", "update", "log"} =>
          \A m \in 1..Layers : Len(gram_s[m]) = n_batch)

C5_Witness ==
    /\ pc = "backward" /\ n_batch < args.batch_size
    /\ \A m \in 1..Layers : Len(gram_s[m]) = n_batch

EpochOrderly ==
    /\ IsPrefix(visited, Identity(dataset_len))
    /\ SumSeq(batches) = Len(visited)
    /\ \A i \in 1..Len(batches) :
          /\ batches[i] >= 1
          /\ batches[i] <= args.batch_size
          /\ (i < Len(batches) => batches[i] = args.batch_size)
    /\ (pc = "epoch_loop" /\ e > 0 => visited = Identity(dataset_len))

\* C6 as stated: the loader shuffles, and each epoch visits every sample
\* once in batches of which only the last may be short.
C6_Original ==
    train_loader.built =>
        /\ train_loader.shuffle
        /\ order \in Shuffles(Len(order))
        /\ SumSeq(batches) = Len(visited)

\* C6 amended: the loader does not shuffle: each epoch visits the samples in
\* the dataset's own order, every sample once, in batches of which only the
\* last may be smaller than batch_size.
C6_SequentialBatches ==
    /\ (train_loader.built => ~train_loader.shuffle)
    /\ (train_loader.built => EpochOrderly)

C6_Witness ==
    /\ pc = "epoch_loop" /\ e = 2 /\ dataset_len = 3
    /\ visited = <<1, 2, 3>> /\ batches = <<2, 1>>

PhaseOrder == <<"Forward", "Loss", "Backward", "Update">>

\* C7: a batch goes through Forward, Loss, Backward, Update in this order,
\* each once; a batch starts only when every earlier batch has had its
\* update; the parameters change only in the update step.
C7_SequentialSteps ==
    /\ [](/\ IsPrefix(phases, PhaseOrder)
          /\ (pc = "log" => phases = PhaseOrder)
          /\ (pc = "forward" => phases = <<>> /\ params = fetched - 1)
          /\ (pc = "batch_loop" => params = fetched))
    /\ [][params' # params => pc = "update" /\ params' = params + 1]_vars
    /\ [][fetched' # fetched => params = fetched]_vars

C7_Witness ==
    pc = "log" /\ phases = PhaseOrder /\ fetched >= 2 /\ params = fetched

\* C8: with the accelerator requested but unavailable, train warns, sets
\* args.cuda to 0 before anything is placed, and everything placed later is
\* on the cpu; the fallback raises no error, and every error that is raised
\* ends the run with status 1.
C8_BackendFallback ==
    /\ [](/\ (pc = "train" => placed = {})
          /\ (train_started /\ cuda_requested # 0 /\ cuda_available = "no" =>
                /\ warned
                /\ args.cuda = 0
                /\ \A p \in placed : p[2] = "cpu")
          /\ (warned => cuda_requested # 0 /\ cuda_available = "no")
          /\ (error # "none" => pc = "exit" /\ exit_code = 1))
    /\ [][args' # args => pc = "train"]_vars

C8_Witness ==
    /\ warned /\ pc = "done" /\ saved = 1 /\ error = "none"
    /\ {<<"transformer", "cpu">>, <<"style", "cpu">>, <<"x", "cpu">>} \subseteq placed

DirMissing(d) == d = "uncreatable"

\* C9: without a subcommand, or when a required directory cannot be
\* created, the process exits with status 1 before train or stylize is
\* entered; train is entered only after check_paths; eval neither checks
\* the directories nor trains.
C9_ExitCodes ==
    /\ (subcommand = "none" =>
          /\ pc \in {"main", "exit"}
          /\ (pc = "exit" => exit_code = 1)
          /\ ~paths_checked /\ ~train_started /\ ~stylize_started)
    /\ (paths_checked /\ (DirMissing(dirs.vgg_model_dir)
                            \/ DirMissing(dirs.save_model_dir)) =>
          /\ pc = "exit" /\ exit_code = 1 /\ error = "PathError"
          /\ ~train_started /\ ~stylize_started)
    /\ (train_started =>
          /\ subcommand = "train" /\ paths_checked
          /\ dirs.vgg_model_dir = "exists" /\ dirs.save_model_dir = "exists")
    /\ (subcommand = "eval" => ~paths_checked /\ ~train_started)

C9_Witness ==
    /\ error = "PathError" /\ exit_code = 1 /\ pc = "exit"
    /\ dirs.vgg_model_dir = "exists" /\ dirs.save_model_dir = "uncreatable"
    /\ ~train_started

\* C10: the style Gram statistics are computed once, before the first
\* batch, and no later step changes them: every batch compares against the
\* statistics computed at setup.
C10_StyleGramConstant ==
    /\ [](/\ gram_computed <= 1
          /\ (fetched > 0 => gram_computed = 1)
          /\ (pc \in {"backward", "update", "log"} =>
                \A m \in 1..Layers : \A i \in 1..Len(gram_s[m]) :
                    gram_s[m][i] = StyleGram(m)))
    /\ [][gram_computed' # gram_computed => pc = "style" /\ fetched = 0]_vars
    /\ [][gram_computed = 1 => gram_style' = gram_style]_vars

C10_Witness ==
    /\ pc = "backward" /\ e = 1 /\ gram_computed = 1
    /\ n_batch = args.batch_size /\ Len(batches) = 1 /\ args.batch_size = 2
    /\ dataset_len = 3

====
